---- MODULE Spec2Model ----
(***************************************************************************)
(* The tidy-data notebooks as a state machine.  Every code cell is one     *)
(* action; the kernel state is the notebook's variables (df, billboard,    *)
(* songs, ranks, tmp_df, allFiles, df_list, df2, ps, psplit, pexp, ptidy),  *)
(* the position pc of the                                                  *)
(* next statement to run and the exception a statement raised, if any;     *)
(* csv is the table in the file that the example read.                     *)
(*                                                                         *)
(* A string is the sequence of its characters, so that the regular         *)
(* expressions of the notebooks can be evaluated on it.  A cell of a table *)
(* is NaN (missing) or Some(v).  A DataFrame is a record                   *)
(*   [columns : sequence of column names,                                  *)
(*    index   : sequence of row labels,                                    *)
(*    rows    : sequence of functions column name -> cell].                *)
(***************************************************************************)
EXTENDS Integers, Sequences, FiniteSets, TLC

VARIABLES pc, raised, csv, df, billboard, songs, ranks, tmp_df, allFiles, df_list, df2,
          unmelted, ps, psplit, pexp, ptidy, sp, ppop, merged_json, inputs, first_run

peopleVars == <<ps, psplit, pexp, ptidy, sp, ppop, merged_json>>

vars ==
  <<pc, raised, csv, df, billboard, songs, ranks, tmp_df, allFiles, df_list, df2, unmelted,
    peopleVars, inputs, first_run>>

(***************************************************************************)
(* Bounds of the model.                                                    *)
(***************************************************************************)
MaxSongs == 2
MaxTbRows == 2
MaxWeatherRows == 2
MaxToyRows == 2
MaxFiles == 2
MaxNames == 2
MaxPeople == 2
MaxStates == 2

(***************************************************************************)
(* Strings.                                                                *)
(***************************************************************************)
YEAR == <<"y", "e", "a", "r">>
ARTIST == <<"a", "r", "t", "i", "s", "t", ".", "i", "n", "v", "e", "r", "t", "e", "d">>
TRACK == <<"t", "r", "a", "c", "k">>
TIME == <<"t", "i", "m", "e">>
GENRE == <<"g", "e", "n", "r", "e">>
DATE_ENTERED == <<"d", "a", "t", "e", ".", "e", "n", "t", "e", "r", "e", "d">>
DATE_PEAKED == <<"d", "a", "t", "e", ".", "p", "e", "a", "k", "e", "d">>
WEEK == <<"w", "e", "e", "k">>
RANK == <<"r", "a", "n", "k">>
DATE == <<"d", "a", "t", "e">>
SONG_ID == <<"s", "o", "n", "g", "_", "i", "d">>
X1ST_WEEK == <<"x", "1", "s", "t", ".", "w", "e", "e", "k">>
X2ND_WEEK == <<"x", "2", "n", "d", ".", "w", "e", "e", "k">>
X10TH_WEEK == <<"x", "1", "0", "t", "h", ".", "w", "e", "e", "k">>
NOTES == <<"n", "o", "t", "e", "s">>
COUNTRY == <<"c", "o", "u", "n", "t", "r", "y">>
CASES == <<"c", "a", "s", "e", "s">>
SEX_AND_AGE == <<"s", "e", "x", "_", "a", "n", "d", "_", "a", "g", "e">>
SEX == <<"s", "e", "x">>
AGE_LOWER == <<"a", "g", "e", "_", "l", "o", "w", "e", "r">>
AGE_UPPER == <<"a", "g", "e", "_", "u", "p", "p", "e", "r">>
AGE == <<"a", "g", "e">>
M014 == <<"m", "0", "1", "4">>
F1524 == <<"f", "1", "5", "2", "4">>
M65 == <<"m", "6", "5">>
MU == <<"m", "u">>
ID == <<"i", "d">>
MONTH == <<"m", "o", "n", "t", "h">>
ELEMENT == <<"e", "l", "e", "m", "e", "n", "t">>
DAY_RAW == <<"d", "a", "y", "_", "r", "a", "w">>
VALUE == <<"v", "a", "l", "u", "e">>
VARIABLE_COL == <<"v", "a", "r", "i", "a", "b", "l", "e">>
DAY == <<"d", "a", "y">>
D1 == <<"d", "1">>
D2 == <<"d", "2">>
D30 == <<"d", "3", "0">>
TMIN == <<"t", "m", "i", "n">>
TMAX == <<"t", "m", "a", "x">>
MX17004 == <<"M", "X", "1", "7", "0", "0", "4">>
ROW == <<"r", "o", "w">>
NAME == <<"n", "a", "m", "e">>
STATES == <<"s", "t", "a", "t", "e", "s">>
COL_X == <<"x">>
COL_Y == <<"y">>
POPULATION_2010 == <<"p", "o", "p", "u", "l", "a", "t", "i", "o", "n", "_", "2", "0", "1", "0">>
STATE_COL == <<"s", "t", "a", "t", "e">>

\* The characters of the model's strings, in code point order.
Alphabet ==
  <<" ", ",", "-", ".", "/", "0", "1", "2", "3", "4", "5", "6", "7", "8", "9",
    "A", "B", "C", "M", "N", "R", "V", "X", "_",
    "a", "b", "c", "d", "e", "f", "g", "h", "i", "k", "l", "m", "n", "o",
    "p", "r", "s", "t", "u", "v", "w", "x", "y">>

Ord(ch) == CHOOSE i \in 1..Len(Alphabet) : Alphabet[i] = ch

Digits == <<"0", "1", "2", "3", "4", "5", "6", "7", "8", "9">>

IsDigit(ch) == \E i \in 1..Len(Digits) : Digits[i] = ch

IsUpper(ch) == ch \in {"A", "B", "C", "M", "N", "R", "V", "X"}

DigitValue(ch) == (CHOOSE i \in 1..Len(Digits) : Digits[i] = ch) - 1

\* int() of a string of decimal digits.
RECURSIVE ToInt(_)
ToInt(s) ==
  IF Len(s) = 0 THEN 0
  ELSE 10 * ToInt(SubSeq(s, 1, Len(s) - 1)) + DigitValue(s[Len(s)])

\* The number of days of the month m of the year y.
DaysInMonth(y, m) ==
  IF m = 2 THEN (IF y % 4 = 0 /\ (y % 100 # 0 \/ y % 400 = 0) THEN 29 ELSE 28)
  ELSE IF m \in {4, 6, 9, 11} THEN 30 ELSE 31

Range(s) == {s[i] : i \in DOMAIN s}

(***************************************************************************)
(* Cells.                                                                  *)
(***************************************************************************)
NaN == <<>>

Some(v) == <<v>>

IsNa(c) == c = NaN

Val(c) == c[1]

(***************************************************************************)
(* Orders used by the sorts: a sort key is a sequence of integers and keys *)
(* compare lexicographically.                                              *)
(***************************************************************************)
StrKey(s) == [i \in 1..Len(s) |-> Ord(s[i])] \o <<0>>

LexLess(a, b) ==
  \/ \E i \in 1..Len(a) :
        /\ i <= Len(b)
        /\ a[i] < b[i]
        /\ \A j \in 1..(i - 1) : a[j] = b[j]
  \/ /\ Len(a) < Len(b)
     /\ \A j \in 1..Len(a) : a[j] = b[j]

\* The elements of a set of integers in increasing order.
SortedSeq(S) ==
  [i \in 1..Cardinality(S) |->
     CHOOSE x \in S : Cardinality({y \in S : y < x}) = i - 1]

\* The stable sorting permutation of a sequence of keys.
SortPerm(keys) ==
  LET n == Len(keys)
      Before(k, j) == LexLess(keys[k], keys[j]) \/ (keys[k] = keys[j] /\ k < j)
  IN  [i \in 1..n |->
         CHOOSE j \in 1..n : Cardinality({k \in 1..n : Before(k, j)}) = i - 1]

(***************************************************************************)
(* DataFrame operations of the library, as the notebooks call them.        *)
(***************************************************************************)
EmptyFrame == [columns |-> <<>>, index |-> <<>>, rows |-> <<>>]

NRows(frame) == Len(frame.rows)

RangeIndex(n) == [i \in 1..n |-> i - 1]

\* The rows at the positions pos (a sequence), labels kept.
TakeRows(frame, pos) ==
  [columns |-> frame.columns,
   index   |-> [i \in 1..Len(pos) |-> frame.index[pos[i]]],
   rows    |-> [i \in 1..Len(pos) |-> frame.rows[pos[i]]]]

\* frame[cols]
SelectColumns(frame, cols) ==
  [columns |-> cols,
   index   |-> frame.index,
   rows    |-> [i \in 1..NRows(frame) |-> [c \in Range(cols) |-> frame.rows[i][c]]]]

\* frame.drop(cols, axis=1)
DropColumns(frame, cols) ==
  SelectColumns(frame, SelectSeq(frame.columns, LAMBDA c : c \notin cols))

\* frame[col] = values, a sequence aligned with the rows
AssignColumn(frame, col, values) ==
  [columns |-> IF col \in Range(frame.columns) THEN frame.columns
               ELSE Append(frame.columns, col),
   index   |-> frame.index,
   rows    |-> [i \in 1..NRows(frame) |->
                  [c \in Range(frame.columns) \cup {col} |->
                     IF c = col THEN values[i] ELSE frame.rows[i][c]]]]

\* A melt that leaves out the missing cells.
MeltSkipNa(frame, id_vars, var_name, value_name) ==
  LET value_vars == SelectSeq(frame.columns, LAMBDA c : c \notin Range(id_vars))
      n == NRows(frame)
      all == {p \in 1..(n * Len(value_vars)) :
                ~IsNa(frame.rows[((p - 1) % n) + 1][value_vars[((p - 1) \div n) + 1]])}
      pos == SortedSeq(all)
  IN  [columns |-> id_vars \o <<var_name, value_name>>,
       index   |-> RangeIndex(Len(pos)),
       rows    |-> [q \in 1..Len(pos) |->
                      LET i == ((pos[q] - 1) % n) + 1
                          j == ((pos[q] - 1) \div n) + 1
                      IN  [c \in Range(id_vars) \cup {var_name, value_name} |->
                             IF c = var_name THEN Some(value_vars[j])
                             ELSE IF c = value_name THEN frame.rows[i][value_vars[j]]
                             ELSE frame.rows[i][c]]]]

\* pd.melt(frame, id_vars, var_name, value_name): the value columns are the
\* columns that are not id_vars, in column order; the output goes through the
\* value columns one after the other and, for each, through the rows in order.
Melt(frame, id_vars, var_name, value_name) ==
  LET value_vars == SelectSeq(frame.columns, LAMBDA c : c \notin Range(id_vars))
      n == NRows(frame)
      m == n * Len(value_vars)
  IN  [columns |-> id_vars \o <<var_name, value_name>>,
       index   |-> RangeIndex(m),
       rows    |-> [p \in 1..m |->
                      LET i == ((p - 1) % n) + 1
                          j == ((p - 1) \div n) + 1
                      IN  [c \in Range(id_vars) \cup {var_name, value_name} |->
                             IF c = var_name THEN Some(value_vars[j])
                             ELSE IF c = value_name THEN frame.rows[i][value_vars[j]]
                             ELSE frame.rows[i][c]]]]

HasNa(frame, i) == \E c \in Range(frame.columns) : IsNa(frame.rows[i][c])

\* A dropna that drops a row only when all its fields are missing (how="all").
DropnaAll(frame) ==
  TakeRows(frame, SortedSeq({i \in 1..NRows(frame) :
     \E c \in Range(frame.columns) : ~IsNa(frame.rows[i][c])}))

\* frame.dropna(): how="any", labels kept.
Dropna(frame) ==
  TakeRows(frame, SortedSeq({i \in 1..NRows(frame) : ~HasNa(frame, i)}))

\* frame.sort_values(by=...), keys given per row; ties keep their order.
SortValues(frame, keys) == TakeRows(frame, [i \in 1..NRows(frame) |-> SortPerm(keys)[i]])

\* A drop_duplicates that compares only the first column.
DropDuplicatesFirstColumn(frame) ==
  TakeRows(frame, SortedSeq({i \in 1..NRows(frame) :
     \A k \in 1..(i - 1) :
        frame.rows[k][frame.columns[1]] # frame.rows[i][frame.columns[1]]}))

\* frame.drop_duplicates(): the first occurrence of every row is kept.
DropDuplicates(frame) ==
  TakeRows(frame, SortedSeq({i \in 1..NRows(frame) :
     \A k \in 1..(i - 1) : frame.rows[k] # frame.rows[i]}))

\* frame.reset_index(drop=True)
ResetIndex(frame) == [frame EXCEPT !.index = RangeIndex(NRows(frame))]

Agree(l, r, on) == \A c \in Range(on) : l[c] = r[c]

\* The pairs (left position, right position) of an inner join on the key
\* columns, in the order of the left rows and, for one left row, of the right.
JoinPairs(left, right, on) ==
  LET nl == NRows(left)
      nr == NRows(right)
      hit == {p \in 1..(nl * nr) :
                Agree(left.rows[((p - 1) \div nr) + 1], right.rows[((p - 1) % nr) + 1], on)}
      pos == SortedSeq(hit)
  IN  [q \in 1..Len(pos) |-> <<((pos[q] - 1) \div nr) + 1, ((pos[q] - 1) % nr) + 1>>]

\* A merge that joins on the first key column only.
MergeFirstKey(left, right, on) ==
  LET pairs == JoinPairs(left, right, <<on[1]>>)
      extra == SelectSeq(right.columns, LAMBDA c : c \notin Range(left.columns))
  IN  [columns |-> left.columns \o extra,
       index   |-> RangeIndex(Len(pairs)),
       rows    |-> [q \in 1..Len(pairs) |->
                      [c \in Range(left.columns) \cup Range(extra) |->
                         IF c \in Range(left.columns) THEN left.rows[pairs[q][1]][c]
                         ELSE right.rows[pairs[q][2]][c]]]]

\* pd.merge(left, right, on=...): inner join; the columns are the left ones and
\* then the right ones that are not keys; the index is a new RangeIndex.
Merge(left, right, on) ==
  LET pairs == JoinPairs(left, right, on)
      extra == SelectSeq(right.columns, LAMBDA c : c \notin Range(on))
  IN  [columns |-> left.columns \o extra,
       index   |-> RangeIndex(Len(pairs)),
       rows    |-> [q \in 1..Len(pairs) |->
                      [c \in Range(left.columns) \cup Range(extra) |->
                         IF c \in Range(left.columns) THEN left.rows[pairs[q][1]][c]
                         ELSE right.rows[pairs[q][2]][c]]]]

\* The pairs (left position, right position) of a left join: those of the
\* inner join and, for a left row that no right row matches, the pair with
\* the right position 0; in the order of the left rows.
LeftJoinPairs(left, right, on) ==
  LET nl == NRows(left)
      nr == NRows(right)
      Hit(i, k) ==
        IF k = 0 THEN \A j \in 1..nr : ~Agree(left.rows[i], right.rows[j], on)
        ELSE Agree(left.rows[i], right.rows[k], on)
      hit == {p \in 1..(nl * (nr + 1)) : Hit(((p - 1) \div (nr + 1)) + 1, (p - 1) % (nr + 1))}
      pos == SortedSeq(hit)
  IN  [q \in 1..Len(pos) |-> <<((pos[q] - 1) \div (nr + 1)) + 1, (pos[q] - 1) % (nr + 1)>>]

\* A merge that keeps the matched rows only.
MergeMatched(left, right, on) == Merge(left, right, on)

\* pd.merge(left, right, how='left', left_on=on, right_on=on): every left row
\* once per matching right row, or once with missing right fields when none
\* matches; the index is a new RangeIndex.
MergeLeft(left, right, on) ==
  LET pairs == LeftJoinPairs(left, right, on)
      extra == SelectSeq(right.columns, LAMBDA c : c \notin Range(on))
  IN  [columns |-> left.columns \o extra,
       index   |-> RangeIndex(Len(pairs)),
       rows    |-> [q \in 1..Len(pairs) |->
                      [c \in Range(left.columns) \cup Range(extra) |->
                         IF c \in Range(left.columns) THEN left.rows[pairs[q][1]][c]
                         ELSE IF pairs[q][2] = 0 THEN NaN
                         ELSE right.rows[pairs[q][2]][c]]]]

(***************************************************************************)
(* Regular expressions.                                                    *)
(***************************************************************************)
\* The end of the run of digits that starts at position i of s.
DigitRunEnd(s, i) ==
  CHOOSE e \in i..Len(s) :
     /\ \A k \in i..e : IsDigit(s[k])
     /\ (e = Len(s) \/ ~IsDigit(s[e + 1]))

\* An extraction that gives "0" for a string without digits.
ExtractDigitsOrZero(s) ==
  LET starts == {i \in 1..Len(s) : IsDigit(s[i])}
  IN  IF starts = {} THEN Some(<<"0">>)
      ELSE LET i == CHOOSE x \in starts : \A y \in starts : x <= y
           IN  Some(SubSeq(s, i, DigitRunEnd(s, i)))

\* str.extract('(\d+)', expand=False) on one string: the first run of digits.
ExtractDigits(s) ==
  LET starts == {i \in 1..Len(s) : IsDigit(s[i])}
  IN  IF starts = {} THEN NaN
      ELSE LET i == CHOOSE x \in starts : \A y \in starts : x <= y
           IN  Some(SubSeq(s, i, DigitRunEnd(s, i)))

\* The days before the first of January of the year y, counted from the first
\* of January of the year 1.
DaysBeforeYear(y) == 365 * (y - 1) + ((y - 1) \div 4) - ((y - 1) \div 100) + ((y - 1) \div 400)

RECURSIVE DaysBeforeMonth(_, _)
DaysBeforeMonth(y, m) ==
  IF m = 1 THEN 0 ELSE DaysBeforeMonth(y, m - 1) + DaysInMonth(y, m - 1)

\* pd.to_datetime of a string "YYYY-MM-DD": the timestamp of that day at
\* midnight, as the number of the day.
ToDatetime(s) ==
  LET y == ToInt(SubSeq(s, 1, 4))
      m == ToInt(SubSeq(s, 6, 7))
      d == ToInt(SubSeq(s, 9, 10))
  IN  DaysBeforeYear(y) + DaysBeforeMonth(y, m) + d

(***************************************************************************)
(* Billboard: the input file.                                              *)
(***************************************************************************)
\* The (track, genre) of the songs of a file; a genre may be missing.
SongAttrs == {<<Some(<<"a">>), Some(<<"R">>)>>, <<Some(<<"b">>), Some(<<"R">>)>>, <<Some(<<"b">>), NaN>>}

\* The day a track entered the chart, as the file writes it.
DateEntered(track) ==
  IF track = Some(<<"a">>) THEN <<"2", "0", "0", "0", "-", "0", "2", "-", "2", "6">>
  ELSE <<"1", "9", "9", "9", "-", "1", "2", "-", "2", "5">>

RankCells == {NaN, Some(1), Some(2)}

\* The headers of the week columns of a file.
BillboardHeaders == {<<X1ST_WEEK, X2ND_WEEK>>, <<X10TH_WEEK, X1ST_WEEK>>, <<X1ST_WEEK, NOTES>>}

billboard_id_vars == <<YEAR, ARTIST, TRACK, TIME, GENRE, DATE_ENTERED, DATE_PEAKED>>

BillboardRawRows(weeks) ==
  {[c \in Range(billboard_id_vars) \cup Range(weeks) |->
      IF c = YEAR THEN Some(2000)
      ELSE IF c = ARTIST THEN Some(<<"A">>)
      ELSE IF c = TRACK THEN a[1]
      ELSE IF c = TIME THEN Some(<<"3">>)
      ELSE IF c = GENRE THEN a[2]
      ELSE IF c = DATE_ENTERED THEN Some(DateEntered(a[1]))
      ELSE IF c = DATE_PEAKED THEN Some(<<"2", "0", "0", "0", "-", "0", "3", "-", "0", "4">>)
      ELSE w[c]] :
     a \in SongAttrs, w \in [Range(weeks) -> RankCells]}

\* pd.read_csv of a file with the columns cols and the rows r.
CsvFile(cols, r) == [columns |-> cols, index |-> RangeIndex(Len(r)), rows |-> r]

\* The files the notebooks read.
BILLBOARD_CSV == <<".", "/", "d", "a", "t", "a", "/", "b", "i", "l", "l", "b", "o", "a", "r", "d", ".", "c", "s", "v">>
TB_RAW_CSV == <<".", "/", "d", "a", "t", "a", "/", "t", "b", "-", "r", "a", "w", ".", "c", "s", "v">>
WEATHER_RAW_CSV == <<".", "/", "d", "a", "t", "a", "/", "w", "e", "a", "t", "h", "e", "r", "-", "r", "a", "w", ".", "c", "s", "v">>
PEOPLE_SHEET1 == <<".", "/", "d", "a", "t", "a", "/", "P", "e", "o", "p", "l", "e", "S", "t", "a", "t", "e", "s", ".", "x", "l", "s", "x", ":", "S", "h", "e", "e", "t", "1">>
PEOPLE_SHEET2 == <<".", "/", "d", "a", "t", "a", "/", "P", "e", "o", "p", "l", "e", "S", "t", "a", "t", "e", "s", ".", "x", "l", "s", "x", ":", "S", "h", "e", "e", "t", "2">>
TOY_LITERAL == <<"p", "d", ".", "D", "a", "t", "a", "F", "r", "a", "m", "e">>
DATA_LISTING == <<".", "/", "d", "a", "t", "a", "/", "*">>

\* No run of the notebook before this one.
NoRun == [example |-> "none", inputs |-> <<>>, tables |-> <<>>]

\* This run may go through the example e: a second run goes through the
\* cells the first run went through.
SameExample(e) == first_run.example \in {"none", e}

\* The content read at path: in a second run the files are those of the
\* first run.
Replay(path, content) ==
  \/ first_run.example = "none"
  \/ path \in DOMAIN first_run.inputs /\ first_run.inputs[path] = content

(***************************************************************************)
(* The kernel.                                                             *)
(***************************************************************************)
Init ==
  /\ pc = "start"
  /\ raised = "none"
  /\ df = EmptyFrame
  /\ billboard = EmptyFrame
  /\ songs = EmptyFrame
  /\ ranks = EmptyFrame
  /\ tmp_df = EmptyFrame
  /\ allFiles = <<>>
  /\ df_list = <<>>
  /\ df2 = EmptyFrame
  /\ unmelted = EmptyFrame
  /\ csv = EmptyFrame
  /\ ps = EmptyFrame
  /\ psplit = EmptyFrame
  /\ pexp = EmptyFrame
  /\ ptidy = EmptyFrame
  /\ sp = EmptyFrame
  /\ ppop = EmptyFrame
  /\ merged_json = <<>>
  /\ inputs = <<>>
  /\ first_run = NoRun

\* df = pd.read_csv("./data/billboard.csv")
ReadBillboard ==
  /\ pc = "start"
  /\ SameExample("billboard_done")
  /\ \E n \in 0..MaxSongs, weeks \in BillboardHeaders :
       \E r \in [1..n -> BillboardRawRows(weeks)] : 
          /\ csv' = CsvFile(billboard_id_vars \o weeks, r)
          /\ df' = CsvFile(billboard_id_vars \o weeks, r)
          /\ Replay(BILLBOARD_CSV, CsvFile(billboard_id_vars \o weeks, r))
          /\ inputs' = (BILLBOARD_CSV :> CsvFile(billboard_id_vars \o weeks, r)) @@ inputs
  /\ pc' = "billboard_melt"
  /\ UNCHANGED <<first_run, raised, billboard, songs, ranks, tmp_df, allFiles, df_list, df2, unmelted, peopleVars>>

\* df = pd.melt(frame=df, id_vars=id_vars, var_name="week", value_name="rank")
BillboardMelt ==
  /\ pc = "billboard_melt"
  /\ df' = Melt(df, billboard_id_vars, WEEK, RANK)
  /\ pc' = "billboard_dropna"
  /\ UNCHANGED <<inputs, first_run, raised, csv, billboard, songs, ranks, tmp_df, allFiles, df_list, df2, unmelted, peopleVars>>

\* df = df.dropna()
BillboardDropna ==
  /\ pc = "billboard_dropna"
  /\ df' = Dropna(df)
  /\ pc' = "billboard_format"
  /\ UNCHANGED <<inputs, first_run, raised, csv, billboard, songs, ranks, tmp_df, allFiles, df_list, df2, unmelted, peopleVars>>

\* df["week"] = df['week'].str.extract('(\d+)', expand=False).astype(int)
BillboardWeek(frame) ==
  AssignColumn(frame, WEEK,
     [i \in 1..NRows(frame) |-> Some(ToInt(Val(ExtractDigits(Val(frame.rows[i][WEEK])))))])

\* The date without the DateOffset of one week taken off.
BillboardDateNoOffset(frame) ==
  AssignColumn(frame, DATE,
     [i \in 1..NRows(frame) |->
        Some(ToDatetime(Val(frame.rows[i][DATE_ENTERED])) + 7 * Val(frame.rows[i][WEEK]))])

\* df['date'] = pd.to_datetime(df['date.entered']) + pd.to_timedelta(df['week'], unit='w')
\*              - pd.DateOffset(weeks=1): a week is seven days
BillboardDate(frame) ==
  AssignColumn(frame, DATE,
     [i \in 1..NRows(frame) |->
        Some(ToDatetime(Val(frame.rows[i][DATE_ENTERED])) + 7 * Val(frame.rows[i][WEEK]) - 7)])

\* The statements after dropna: week, rank and date.  astype(int) raises on a
\* missing week and the statements after it are not run.
BillboardFormat ==
  /\ pc = "billboard_format"
  /\ IF \E i \in 1..NRows(df) : IsNa(ExtractDigits(Val(df.rows[i][WEEK])))
     THEN /\ df' = df
          /\ raised' = "ValueError"
          /\ pc' = "billboard_format_failed"
     ELSE /\ df' = BillboardDate(BillboardWeek(df))
          /\ raised' = raised
          /\ pc' = "billboard_sort"
  /\ UNCHANGED <<inputs, first_run, csv, billboard, songs, ranks, tmp_df, allFiles, df_list, df2, unmelted, peopleVars>>

BillboardSortKey(r) ==
  <<Val(r[YEAR])>> \o StrKey(Val(r[ARTIST])) \o StrKey(Val(r[TRACK]))
     \o <<Val(r[WEEK]), Val(r[RANK])>>

\* df = df[[...]]; df = df.sort_values(...); billboard = df
BillboardSort ==
  /\ pc = "billboard_sort"
  /\ LET sel == SelectColumns(df, <<YEAR, ARTIST, TRACK, TIME, GENRE, WEEK, RANK, DATE>>)
         out == SortValues(sel, [i \in 1..NRows(sel) |-> BillboardSortKey(sel.rows[i])])
     IN  /\ df' = out
         /\ billboard' = out
  /\ pc' = "songs"
  /\ UNCHANGED <<inputs, first_run, raised, csv, songs, ranks, tmp_df, allFiles, df_list, df2, unmelted, peopleVars>>

songs_cols == <<YEAR, ARTIST, TRACK, TIME, GENRE>>

\* songs = billboard[songs_cols].drop_duplicates().reset_index(drop=True);
\* songs["song_id"] = songs.index
SongsTable(b) ==
  LET s == ResetIndex(DropDuplicates(SelectColumns(b, songs_cols)))
  IN  AssignColumn(s, SONG_ID, [i \in 1..NRows(s) |-> Some(s.index[i])])

SongsCell ==
  /\ pc = "songs"
  /\ songs' = SongsTable(billboard)
  /\ pc' = "ranks"
  /\ UNCHANGED <<inputs, first_run, raised, csv, df, billboard, ranks, tmp_df, allFiles, df_list, df2, unmelted, peopleVars>>

\* ranks = pd.merge(billboard, songs, on=[...]); ranks = ranks[["song_id", "date", "rank"]]
RanksTable(b, s) == SelectColumns(Merge(b, s, songs_cols), <<SONG_ID, DATE, RANK>>)

RanksCell ==
  /\ pc = "ranks"
  /\ ranks' = RanksTable(billboard, songs)
  /\ pc' = "billboard_done"
  /\ UNCHANGED <<inputs, first_run, raised, csv, df, billboard, songs, tmp_df, allFiles, df_list, df2, unmelted, peopleVars>>

(***************************************************************************)
(* Tuberculosis.                                                           *)
(***************************************************************************)
\* A concatenation that pairs the rows of a with the rows of b taken from the
\* last one to the first.
ConcatColumnsReversed(a, b) ==
  [columns |-> a.columns \o b.columns,
   index   |-> a.index,
   rows    |-> [q \in 1..NRows(a) |->
                  [c \in Range(a.columns) \cup Range(b.columns) |->
                     IF c \in Range(a.columns) THEN a.rows[q][c]
                     ELSE b.rows[NRows(b) + 1 - q][c]]]]

\* pd.concat([a, b], axis=1): the rows are aligned on their index labels (the
\* labels of a, then those only b has); a cell with no row behind it is NaN.
ConcatColumns(a, b) ==
  LET labels == a.index \o SelectSeq(b.index, LAMBDA l : l \notin Range(a.index))
      RowOf(frame, l) ==
        IF l \in Range(frame.index)
        THEN frame.rows[CHOOSE i \in 1..NRows(frame) : frame.index[i] = l]
        ELSE [c \in Range(frame.columns) |-> NaN]
  IN  [columns |-> a.columns \o b.columns,
       index   |-> labels,
       rows    |-> [q \in 1..Len(labels) |->
                      [c \in Range(a.columns) \cup Range(b.columns) |->
                         IF c \in Range(a.columns) THEN RowOf(a, labels[q])[c]
                         ELSE RowOf(b, labels[q])[c]]]]

\* str.extract("(\D)(\d+)(\d{2})", expand=False) on one string: the leftmost
\* non-digit that at least three digits follow; \d+ is greedy, so that the
\* last group is the last two digits of that run of digits.
ExtractSexAge(s) ==
  LET starts == {i \in 1..Len(s) :
                   /\ ~IsDigit(s[i])
                   /\ i + 3 <= Len(s)
                   /\ \A k \in (i + 1)..(i + 3) : IsDigit(s[k])}
  IN  IF starts = {} THEN <<NaN, NaN, NaN>>
      ELSE LET i == CHOOSE x \in starts : \A y \in starts : x <= y
               e == DigitRunEnd(s, i + 1)
           IN  <<Some(<<s[i]>>), Some(SubSeq(s, i + 1, e - 2)), Some(SubSeq(s, e - 1, e))>>

\* a + b on two string cells: missing when either is.
StrCat(a, b) == IF IsNa(a) \/ IsNa(b) THEN NaN ELSE Some(Val(a) \o Val(b))

CountryNames == {<<"A">>, <<"B">>}

CasesCells == {NaN, Some(0), Some(3)}

\* The headers of the sex/age columns of a file.
TbHeaders == {<<M014, F1524>>, <<M014, M65>>, <<F1524, MU>>}

tb_id_vars == <<COUNTRY, YEAR>>

TbRawRows(labels) ==
  {[c \in Range(tb_id_vars) \cup Range(labels) |->
      IF c = COUNTRY THEN Some(k)
      ELSE IF c = YEAR THEN Some(2000)
      ELSE w[c]] :
     k \in CountryNames, w \in [Range(labels) -> CasesCells]}

\* df = pd.read_csv("./data/tb-raw.csv")
ReadTb ==
  /\ pc = "start"
  /\ SameExample("tb_done")
  /\ \E n \in 0..MaxTbRows, labels \in TbHeaders :
       \E r \in [1..n -> TbRawRows(labels)] : 
          /\ csv' = CsvFile(tb_id_vars \o labels, r)
          /\ df' = CsvFile(tb_id_vars \o labels, r)
          /\ Replay(TB_RAW_CSV, CsvFile(tb_id_vars \o labels, r))
          /\ inputs' = (TB_RAW_CSV :> CsvFile(tb_id_vars \o labels, r)) @@ inputs
  /\ pc' = "tb_melt"
  /\ UNCHANGED <<first_run, raised, billboard, songs, ranks, tmp_df, allFiles, df_list, df2, unmelted, peopleVars>>

\* df = pd.melt(df, id_vars=["country","year"], value_name="cases", var_name="sex_and_age")
TbMelt ==
  /\ pc = "tb_melt"
  /\ df' = Melt(df, tb_id_vars, SEX_AND_AGE, CASES)
  /\ pc' = "tb_extract"
  /\ UNCHANGED <<inputs, first_run, raised, csv, billboard, songs, ranks, tmp_df, allFiles, df_list, df2, unmelted, peopleVars>>

\* tmp_df = df["sex_and_age"].str.extract(...); tmp_df.columns = [...];
\* tmp_df["age"] = tmp_df["age_lower"] + "-" + tmp_df["age_upper"]
TbTmp(frame) ==
  LET g == [i \in 1..NRows(frame) |-> ExtractSexAge(Val(frame.rows[i][SEX_AND_AGE]))]
  IN  [columns |-> <<SEX, AGE_LOWER, AGE_UPPER, AGE>>,
       index   |-> frame.index,
       rows    |-> [i \in 1..NRows(frame) |->
                      [c \in {SEX, AGE_LOWER, AGE_UPPER, AGE} |->
                         IF c = SEX THEN g[i][1]
                         ELSE IF c = AGE_LOWER THEN g[i][2]
                         ELSE IF c = AGE_UPPER THEN g[i][3]
                         ELSE StrCat(StrCat(g[i][2], Some(<<"-">>)), g[i][3])]]]

TbExtract ==
  /\ pc = "tb_extract"
  /\ tmp_df' = TbTmp(df)
  /\ pc' = "tb_concat"
  /\ UNCHANGED <<inputs, first_run, raised, csv, df, billboard, songs, ranks, allFiles, df_list, df2, unmelted, peopleVars>>

\* df = pd.concat([df, tmp_df], axis=1); df = df.drop([...], axis=1)
TbJoined(frame, tmp) == DropColumns(ConcatColumns(frame, tmp), {SEX_AND_AGE, AGE_LOWER, AGE_UPPER})

TbConcat ==
  /\ pc = "tb_concat"
  /\ df' = TbJoined(df, tmp_df)
  /\ pc' = "tb_dropna"
  /\ UNCHANGED <<inputs, first_run, raised, csv, billboard, songs, ranks, tmp_df, allFiles, df_list, df2, unmelted, peopleVars>>

\* df = df.dropna()
TbDropna ==
  /\ pc = "tb_dropna"
  /\ df' = Dropna(df)
  /\ pc' = "tb_sort"
  /\ UNCHANGED <<inputs, first_run, raised, csv, billboard, songs, ranks, tmp_df, allFiles, df_list, df2, unmelted, peopleVars>>

TbSortKey(r) ==
  StrKey(Val(r[COUNTRY])) \o <<Val(r[YEAR])>> \o StrKey(Val(r[SEX])) \o StrKey(Val(r[AGE]))

\* df = df.sort_values(ascending=True, by=["country", "year", "sex", "age"])
TbSort ==
  /\ pc = "tb_sort"
  /\ df' = SortValues(df, [i \in 1..NRows(df) |-> TbSortKey(df.rows[i])])
  /\ pc' = "tb_done"
  /\ UNCHANGED <<inputs, first_run, raised, csv, billboard, songs, ranks, tmp_df, allFiles, df_list, df2, unmelted, peopleVars>>

(***************************************************************************)
(* Weather.  A measurement is a float, modelled as the exact fraction      *)
(* <<numerator, denominator>> in lowest terms.                             *)
(***************************************************************************)
RECURSIVE Gcd(_, _)
Gcd(a, b) == IF b = 0 THEN a ELSE Gcd(b, a % b)

Frac(n, d) == <<n \div Gcd(n, d), d \div Gcd(n, d)>>

Float(n) == <<n, 1>>

RECURSIVE FracSum(_)
FracSum(s) ==
  IF Len(s) = 0 THEN <<0, 1>>
  ELSE LET t == FracSum(Tail(s))
       IN  Frac(s[1][1] * t[2] + t[1] * s[1][2], s[1][2] * t[2])

\* An aggregate that adds the values up (aggfunc="sum").
SumAgg(s) == FracSum(s)

\* numpy's mean of a non-empty sequence of values, the default aggfunc.
Mean(s) == LET t == FracSum(s) IN Frac(t[1], t[2] * Len(s))

\* The distinct values of a sequence, sorted by their keys; key[i] is the
\* sort key of s[i].
SortedDistinct(s, key) ==
  LET first == SortedSeq({i \in 1..Len(s) : \A k \in 1..(i - 1) : s[k] # s[i]})
      perm == SortPerm([q \in 1..Len(first) |-> key[first[q]]])
  IN  [q \in 1..Len(first) |-> s[first[perm[q]]]]

\* A pivot that does not split the rows of a group by the values of col.
PivotTableNoSplit(frame, idx, col, val, rowKey) ==
  LET valid == SortedSeq({i \in 1..NRows(frame) :
                 \A c \in Range(idx) \cup {col, val} : ~IsNa(frame.rows[i][c])})
      n == Len(valid)
      row == [i \in 1..n |-> frame.rows[valid[i]]]
      groups == SortedDistinct([i \in 1..n |-> [c \in Range(idx) |-> row[i][c]]],
                               [i \in 1..n |-> rowKey[valid[i]]])
      heads == SortedDistinct([i \in 1..n |-> Val(row[i][col])],
                              [i \in 1..n |-> StrKey(Val(row[i][col]))])
      Members(g, h) == SortedSeq({i \in 1..n : \A c \in Range(idx) : row[i][c] = g[c]})
  IN  [columns |-> idx \o heads,
       index   |-> RangeIndex(Len(groups)),
       rows    |-> [q \in 1..Len(groups) |->
                      [c \in Range(idx) \cup Range(heads) |->
                         IF c \in Range(idx) THEN groups[q][c]
                         ELSE IF Members(groups[q], c) = <<>> THEN NaN
                         ELSE Some(Mean([k \in 1..Len(Members(groups[q], c)) |->
                                 Val(row[Members(groups[q], c)[k]][val])]))]]]

\* frame.pivot_table(index=idx, columns=col, values=val) and then
\* reset_index(drop=False): the rows are grouped by (idx, col), every group is
\* aggregated by the mean of its values of val, the missing ones left out;
\* the groups with a value are the rows of the output, sorted by idx, and the
\* values of col are its columns, sorted; a cell without a group is NaN.
\* Rows with a missing key take part in no group, and a row or a column of
\* the output with no value at all is dropped (dropna=True).
PivotTable(frame, idx, col, val, rowKey) ==
  LET valid == SortedSeq({i \in 1..NRows(frame) :
                 \A c \in Range(idx) \cup {col, val} : ~IsNa(frame.rows[i][c])})
      n == Len(valid)
      row == [i \in 1..n |-> frame.rows[valid[i]]]
      groups == SortedDistinct([i \in 1..n |-> [c \in Range(idx) |-> row[i][c]]],
                               [i \in 1..n |-> rowKey[valid[i]]])
      heads == SortedDistinct([i \in 1..n |-> Val(row[i][col])],
                              [i \in 1..n |-> StrKey(Val(row[i][col]))])
      Members(g, h) == SortedSeq({i \in 1..n :
                          /\ \A c \in Range(idx) : row[i][c] = g[c]
                          /\ Val(row[i][col]) = h})
  IN  [columns |-> idx \o heads,
       index   |-> RangeIndex(Len(groups)),
       rows    |-> [q \in 1..Len(groups) |->
                      [c \in Range(idx) \cup Range(heads) |->
                         IF c \in Range(idx) THEN groups[q][c]
                         ELSE IF Members(groups[q], c) = <<>> THEN NaN
                         ELSE Some(Mean([k \in 1..Len(Members(groups[q], c)) |->
                                 Val(row[Members(groups[q], c)[k]][val])]))]]]

\* str.extract("d(\d+)", expand=False) on one string: the digits after the
\* first "d" that a digit follows.
ExtractDay(s) ==
  LET starts == {i \in 1..(Len(s) - 1) : s[i] = "d" /\ IsDigit(s[i + 1])}
  IN  IF starts = {} THEN NaN
      ELSE LET i == CHOOSE x \in starts : \A y \in starts : x <= y
           IN  Some(SubSeq(s, i + 1, DigitRunEnd(s, i + 1)))

ElementNames == {TMIN, TMAX}

MonthNumbers == {2}

ValueCells == {NaN, Some(Float(10)), Some(Float(25))}

\* The headers of the day columns of a file.
WeatherHeaders == {<<D2, D1>>, <<D1, D30>>, <<D2, NOTES>>}

weather_id_vars == <<ID, YEAR, MONTH, ELEMENT>>

WeatherRawRows(days) ==
  {[c \in Range(weather_id_vars) \cup Range(days) |->
      IF c = ID THEN Some(MX17004)
      ELSE IF c = YEAR THEN Some(2010)
      ELSE IF c = MONTH THEN Some(m)
      ELSE IF c = ELEMENT THEN Some(e)
      ELSE w[c]] :
     m \in MonthNumbers, e \in ElementNames, w \in [Range(days) -> ValueCells]}

\* df = pd.read_csv("./data/weather-raw.csv")
ReadWeather ==
  /\ pc = "start"
  /\ SameExample("weather_done")
  /\ \E n \in 0..MaxWeatherRows, days \in WeatherHeaders :
       \E r \in [1..n -> WeatherRawRows(days)] : 
          /\ csv' = CsvFile(weather_id_vars \o days, r)
          /\ df' = CsvFile(weather_id_vars \o days, r)
          /\ Replay(WEATHER_RAW_CSV, CsvFile(weather_id_vars \o days, r))
          /\ inputs' = (WEATHER_RAW_CSV :> CsvFile(weather_id_vars \o days, r)) @@ inputs
  /\ pc' = "weather_melt"
  /\ UNCHANGED <<first_run, raised, billboard, songs, ranks, tmp_df, allFiles, df_list, df2, unmelted, peopleVars>>

\* df = pd.melt(df, id_vars=["id", "year","month","element"], var_name="day_raw")
WeatherMelt ==
  /\ pc = "weather_melt"
  /\ df' = Melt(df, weather_id_vars, DAY_RAW, VALUE)
  /\ pc' = "weather_id"
  /\ UNCHANGED <<inputs, first_run, raised, csv, billboard, songs, ranks, tmp_df, allFiles, df_list, df2, unmelted, peopleVars>>

\* df["id"] = "MX17004"
WeatherId ==
  /\ pc = "weather_id"
  /\ df' = AssignColumn(df, ID, [i \in 1..NRows(df) |-> Some(MX17004)])
  /\ pc' = "weather_day"
  /\ UNCHANGED <<inputs, first_run, raised, csv, billboard, songs, ranks, tmp_df, allFiles, df_list, df2, unmelted, peopleVars>>

\* df["day"] = df["day_raw"].str.extract("d(\d+)", expand=False)
WeatherDayColumn(frame) ==
  AssignColumn(frame, DAY, [i \in 1..NRows(frame) |-> ExtractDay(Val(frame.rows[i][DAY_RAW]))])

WeatherDay ==
  /\ pc = "weather_day"
  /\ df' = WeatherDayColumn(df)
  /\ pc' = "weather_int"
  /\ UNCHANGED <<inputs, first_run, raised, csv, billboard, songs, ranks, tmp_df, allFiles, df_list, df2, unmelted, peopleVars>>

\* df[["year","month","day"]] = df[["year","month","day"]].astype(int):
\* raises on a missing day.
WeatherInt ==
  /\ pc = "weather_int"
  /\ IF \E i \in 1..NRows(df) : IsNa(df.rows[i][DAY])
     THEN /\ df' = df
          /\ raised' = "ValueError"
          /\ pc' = "weather_int_failed"
     ELSE /\ df' = AssignColumn(df, DAY,
                     [i \in 1..NRows(df) |-> Some(ToInt(Val(df.rows[i][DAY])))])
          /\ raised' = raised
          /\ pc' = "weather_date"
  /\ UNCHANGED <<inputs, first_run, csv, billboard, songs, ranks, tmp_df, allFiles, df_list, df2, unmelted, peopleVars>>

ValidDate(r) ==
  /\ Val(r[MONTH]) \in 1..12
  /\ Val(r[DAY]) \in 1..DaysInMonth(Val(r[YEAR]), Val(r[MONTH]))

\* df["date"] = pd.to_datetime(df[["year", "month", "day"]]): raises on a day
\* the month does not have.
WeatherDate ==
  /\ pc = "weather_date"
  /\ IF \E i \in 1..NRows(df) : ~ValidDate(df.rows[i])
     THEN /\ df' = df
          /\ raised' = "ValueError"
          /\ pc' = "weather_date_failed"
     ELSE /\ df' = AssignColumn(df, DATE,
                     [i \in 1..NRows(df) |->
                        Some(<<Val(df.rows[i][YEAR]), Val(df.rows[i][MONTH]), Val(df.rows[i][DAY])>>)])
          /\ raised' = raised
          /\ pc' = "weather_drop"
  /\ UNCHANGED <<inputs, first_run, csv, billboard, songs, ranks, tmp_df, allFiles, df_list, df2, unmelted, peopleVars>>

\* df = df.drop(['year',"month","day", "day_raw"], axis=1)
WeatherDropColumns ==
  /\ pc = "weather_drop"
  /\ df' = DropColumns(df, {YEAR, MONTH, DAY, DAY_RAW})
  /\ pc' = "weather_dropna"
  /\ UNCHANGED <<inputs, first_run, raised, csv, billboard, songs, ranks, tmp_df, allFiles, df_list, df2, unmelted, peopleVars>>

\* df = df.dropna()
WeatherDropna ==
  /\ pc = "weather_dropna"
  /\ df' = Dropna(df)
  /\ pc' = "weather_pivot"
  /\ UNCHANGED <<inputs, first_run, raised, csv, billboard, songs, ranks, tmp_df, allFiles, df_list, df2, unmelted, peopleVars>>

WeatherRowKey(g) == StrKey(Val(g[ID])) \o Val(g[DATE])

\* df = df.pivot_table(index=["id","date"], columns="element", values="value")
\* df.reset_index(drop=False, inplace=True)
WeatherPivotTable(frame) ==
  PivotTable(frame, <<ID, DATE>>, ELEMENT, VALUE,
             [i \in 1..NRows(frame) |-> WeatherRowKey(frame.rows[i])])

WeatherPivot ==
  /\ pc = "weather_pivot"
  /\ df' = WeatherPivotTable(df)
  /\ pc' = "weather_done"
  /\ UNCHANGED <<inputs, first_run, raised, csv, billboard, songs, ranks, tmp_df, allFiles, df_list, df2, unmelted, peopleVars>>

(***************************************************************************)
(* The toy table of the melt example, and the pivot applied to its melt.   *)
(***************************************************************************)
RowNames == {<<"A">>, <<"B">>}

ToyCells == {NaN, Some(Float(1)), Some(Float(2))}

toy_id_vars == <<ROW>>

toy_value_vars == <<COL_X, COL_Y>>

ToyRows ==
  {[c \in {ROW, COL_X, COL_Y} |-> IF c = ROW THEN Some(k) ELSE w[c]] :
     k \in RowNames, w \in [{COL_X, COL_Y} -> ToyCells]}

\* df = pd.DataFrame({'row': [...], 'x': [...], 'y': [...]})
ToyFrame ==
  /\ pc = "start"
  /\ SameExample("toy_done")
  /\ \E n \in 0..MaxToyRows :
       \E r \in [1..n -> ToyRows] :
          /\ df' = CsvFile(toy_id_vars \o toy_value_vars, r)
          /\ Replay(TOY_LITERAL, CsvFile(toy_id_vars \o toy_value_vars, r))
          /\ inputs' = (TOY_LITERAL :> CsvFile(toy_id_vars \o toy_value_vars, r)) @@ inputs
  /\ pc' = "toy_melt"
  /\ UNCHANGED <<first_run, raised, csv, billboard, songs, ranks, tmp_df, allFiles, df_list, df2, unmelted, peopleVars>>

\* df2 = pd.melt(df, ['row'])
ToyMelt ==
  /\ pc = "toy_melt"
  /\ df2' = Melt(df, toy_id_vars, VARIABLE_COL, VALUE)
  /\ pc' = "toy_pivot"
  /\ UNCHANGED <<inputs, first_run, raised, csv, df, billboard, songs, ranks, tmp_df, allFiles, df_list, unmelted, peopleVars>>

ToyRowKey(g) == StrKey(Val(g[ROW]))

\* A pivot of the melted toy table that does not split by variable.
ToyPivotTableNoSplit(frame) ==
  PivotTableNoSplit(frame, toy_id_vars, VARIABLE_COL, VALUE,
                    [i \in 1..NRows(frame) |-> ToyRowKey(frame.rows[i])])

\* The pivot of the weather example applied to the melted toy table:
\* df2.pivot_table(index=["row"], columns="variable", values="value"), reset_index
ToyPivotTable(frame) ==
  PivotTable(frame, toy_id_vars, VARIABLE_COL, VALUE,
             [i \in 1..NRows(frame) |-> ToyRowKey(frame.rows[i])])

ToyPivot ==
  /\ pc = "toy_pivot"
  /\ unmelted' = ToyPivotTable(df2)
  /\ pc' = "toy_done"
  /\ UNCHANGED <<inputs, first_run, raised, csv, df, billboard, songs, ranks, tmp_df, allFiles, df_list, df2, peopleVars>>

(***************************************************************************)
(* Baby names.                                                             *)
(***************************************************************************)
BABY_NAMES == <<"_", "b", "a", "b", "y", "_", "n", "a", "m", "e", "s", "_">>

DOT_CSV == <<".", "c", "s", "v">>

DATA_DIR == <<".", "/", "d", "a", "t", "a", "/">>

\* The files the data directory may hold.
DirectoryNames ==
  {<<"N", "C">> \o BABY_NAMES \o <<"2", "0", "1", "6">> \o DOT_CSV,
   <<"M", "N">> \o BABY_NAMES \o <<"1", "9", "1", "6">> \o DOT_CSV,
   <<"n", "c">> \o BABY_NAMES \o <<"2", "0", "1", "6">> \o DOT_CSV,
   <<"t", "b">> \o DOT_CSV}

\* fnmatch of a file name against "*_baby_names_*.csv"; a "*" at the start of
\* a pattern matches no leading dot.
GlobMatch(name) ==
  /\ Len(name) > 0
  /\ name[1] # "."
  /\ \E i \in 1..Len(name) :
        /\ i + Len(BABY_NAMES) - 1 <= Len(name) - Len(DOT_CSV)
        /\ SubSeq(name, i, i + Len(BABY_NAMES) - 1) = BABY_NAMES
  /\ SubSeq(name, Len(name) - Len(DOT_CSV) + 1, Len(name)) = DOT_CSV

None == <<>>

\* re.match(".*([A-Z]{2})_baby_names_(\d{4}).*", string): the first ".*" is
\* greedy, so the match is the last place where two capitals, "_baby_names_"
\* and four digits follow one another.  Without a match the function falls
\* off its end and returns None.
extract_variables_from_filename(string) ==
  LET k == Len(BABY_NAMES)
      places == {i \in 1..Len(string) :
                   /\ i + 1 + k + 4 <= Len(string)
                   /\ IsUpper(string[i]) /\ IsUpper(string[i + 1])
                   /\ SubSeq(string, i + 2, i + 1 + k) = BABY_NAMES
                   /\ \A j \in (i + 2 + k)..(i + 5 + k) : IsDigit(string[j])}
  IN  IF places = {} THEN None
      ELSE LET i == CHOOSE x \in places : \A y \in places : y <= x
           IN  Some([state |-> SubSeq(string, i, i + 1),
                     year  |-> SubSeq(string, i + 2 + k, i + 5 + k)])

Orderings(S) ==
  {f \in [1..Cardinality(S) -> S] : \A a, b \in 1..Cardinality(S) : a # b => f[a] # f[b]}

\* allFiles = glob.glob(path + "/*_baby_names_*.csv"): the matching files of
\* the directory, in the order the file system lists them.
GlobCell ==
  /\ pc = "start"
  /\ SameExample("baby_done")
  /\ \E dir \in SUBSET DirectoryNames :
        /\ Cardinality(dir) <= MaxFiles
        /\ Replay(DATA_LISTING, dir)
        /\ inputs' = (DATA_LISTING :> dir) @@ inputs
        /\ \E order \in Orderings({name \in dir : GlobMatch(name)}) :
              allFiles' = [i \in 1..Len(order) |-> DATA_DIR \o order[i]]
  /\ pc' = "baby_loop"
  /\ UNCHANGED <<first_run, raised, csv, df, billboard, songs, ranks, tmp_df, df_list, df2, unmelted, peopleVars>>

NAME_HEADER == <<"N", "a", "m", "e">>

BabyNames == {<<"a">>, <<"b">>}

Lower(ch) ==
  CASE ch = "A" -> "a" [] ch = "B" -> "b" [] ch = "C" -> "c" [] ch = "M" -> "m"
    [] ch = "N" -> "n" [] ch = "R" -> "r" [] ch = "V" -> "v" [] ch = "X" -> "x"
    [] OTHER -> ch

StrLower(s) == [i \in 1..Len(s) |-> Lower(s[i])]

\* df.columns = map(str.lower, df.columns)
LowerColumns(frame) ==
  [columns |-> [j \in 1..Len(frame.columns) |-> StrLower(frame.columns[j])],
   index   |-> frame.index,
   rows    |-> [i \in 1..NRows(frame) |->
                  [c \in {StrLower(h) : h \in Range(frame.columns)} |->
                     frame.rows[i][CHOOSE h \in Range(frame.columns) : StrLower(h) = c]]]]

\* A concatenation that takes the frames from the last one to the first.
ConcatRowsReversed(frames) ==
  LET RECURSIVE Cat(_)
      Cat(k) ==
        IF k = 0 THEN <<>>
        ELSE [i \in 1..NRows(frames[k]) |-> <<k, i>>] \o Cat(k - 1)
      at == Cat(Len(frames))
  IN  [columns |-> frames[1].columns,
       index   |-> [q \in 1..Len(at) |-> frames[at[q][1]].index[at[q][2]]],
       rows    |-> [q \in 1..Len(at) |-> frames[at[q][1]].rows[at[q][2]]]]

\* pd.concat(frames), axis=0: the rows of the frames one after the other, with
\* their labels; the frames have the same columns.
ConcatRows(frames) ==
  LET RECURSIVE Cat(_)
      Cat(k) ==
        IF k = 0 THEN <<>> ELSE Cat(k - 1) \o [i \in 1..NRows(frames[k]) |-> <<k, i>>]
      at == Cat(Len(frames))
  IN  [columns |-> frames[1].columns,
       index   |-> [q \in 1..Len(at) |-> frames[at[q][1]].index[at[q][2]]],
       rows    |-> [q \in 1..Len(at) |-> frames[at[q][1]].rows[at[q][2]]]]

\* One turn of "for file_ in allFiles": read the file, lower-case its columns,
\* take the year and the state from its name and append it to df_list.
\* Subscripting the None of a name that does not match raises TypeError.
BabyLoop ==
  /\ pc = "baby_loop"
  /\ Len(df_list) < Len(allFiles)
  /\ \E n \in 0..MaxNames :
       \E r \in [1..n -> {[c \in {NAME_HEADER} |-> Some(b)] : b \in BabyNames}] :
          /\ csv' = CsvFile(<<NAME_HEADER>>, r)
          /\ Replay(allFiles[Len(df_list) + 1], CsvFile(<<NAME_HEADER>>, r))
          /\ inputs' = (allFiles[Len(df_list) + 1] :> CsvFile(<<NAME_HEADER>>, r)) @@ inputs
          /\ LET file_ == allFiles[Len(df_list) + 1]
                 read == LowerColumns(CsvFile(<<NAME_HEADER>>, r))
                 variables_dict == extract_variables_from_filename(file_)
             IN  IF variables_dict = None
                 THEN /\ df' = read
                      /\ raised' = "TypeError"
                      /\ pc' = "baby_loop_failed"
                      /\ df_list' = df_list
                 ELSE LET y == AssignColumn(read, YEAR,
                                  [i \in 1..n |-> Some(Val(variables_dict).year)])
                          out == AssignColumn(y, STATE_COL,
                                  [i \in 1..n |-> Some(Val(variables_dict).state)])
                      IN  /\ df' = out
                          /\ df_list' = Append(df_list, out)
                          /\ raised' = raised
                          /\ pc' = pc
  /\ UNCHANGED <<first_run, billboard, songs, ranks, tmp_df, allFiles, df2, unmelted, peopleVars>>

\* df = pd.concat(df_list), after the loop: raises ValueError on an empty list.
BabyConcat ==
  /\ pc = "baby_loop"
  /\ Len(df_list) = Len(allFiles)
  /\ IF df_list = <<>>
     THEN /\ df' = df
          /\ raised' = "ValueError"
          /\ pc' = "baby_concat_failed"
     ELSE /\ df' = ConcatRows(df_list)
          /\ raised' = raised
          /\ pc' = "baby_done"
  /\ UNCHANGED <<inputs, first_run, csv, billboard, songs, ranks, tmp_df, allFiles, df_list, df2, unmelted, peopleVars>>

(***************************************************************************)
(* People and states.                                                      *)
(***************************************************************************)
\* s.split(sep): the pieces of s between the separators.
Split(s, sep) ==
  LET at == SortedSeq({i \in 1..Len(s) : s[i] = sep})
  IN  [j \in 1..(Len(at) + 1) |->
         SubSeq(s, IF j = 1 THEN 1 ELSE at[j - 1] + 1,
                   IF j = Len(at) + 1 THEN Len(s) ELSE at[j] - 1)]

\* The label of the column number j (0, 1, ...) of a frame without headers.
ColumnNumber(j) == <<Digits[j + 1]>>

Pieces(frame, col, sep, i) ==
  IF IsNa(frame.rows[i][col]) THEN <<>> ELSE Split(Val(frame.rows[i][col]), sep)

\* A split that pads the shorter lists with empty strings.
StrSplitExpandPadEmpty(frame, col, sep) ==
  LET n == NRows(frame)
      width == IF n = 0 THEN 0
               ELSE CHOOSE w \in 0..50 :
                      /\ \A i \in 1..n : Len(Pieces(frame, col, sep, i)) <= w
                      /\ \E i \in 1..n : Len(Pieces(frame, col, sep, i)) = w
  IN  [columns |-> [j \in 1..width |-> ColumnNumber(j - 1)],
       index   |-> frame.index,
       rows    |-> [i \in 1..n |->
                      [c \in {ColumnNumber(j - 1) : j \in 1..width} |->
                         LET j == CHOOSE k \in 1..width : ColumnNumber(k - 1) = c
                         IN  IF j <= Len(Pieces(frame, col, sep, i))
                             THEN Some(Pieces(frame, col, sep, i)[j]) ELSE Some(<<>>)]]]

\* frame[col].str.split(sep, expand=True): one column per piece, as many as
\* the longest list has; the shorter lists are padded with missing values.
StrSplitExpand(frame, col, sep) ==
  LET n == NRows(frame)
      width == IF n = 0 THEN 0
               ELSE CHOOSE w \in 0..50 :
                      /\ \A i \in 1..n : Len(Pieces(frame, col, sep, i)) <= w
                      /\ \E i \in 1..n : Len(Pieces(frame, col, sep, i)) = w
  IN  [columns |-> [j \in 1..width |-> ColumnNumber(j - 1)],
       index   |-> frame.index,
       rows    |-> [i \in 1..n |->
                      [c \in {ColumnNumber(j - 1) : j \in 1..width} |->
                         LET j == CHOOSE k \in 1..width : ColumnNumber(k - 1) = c
                         IN  IF j <= Len(Pieces(frame, col, sep, i))
                             THEN Some(Pieces(frame, col, sep, i)[j]) ELSE NaN]]]

PeopleNames == {<<"a">>, <<"b">>}

StatesLists == {<<"N", "C">>, <<"N", "C", ",", "V", "A">>, <<"V", "A">>}

PeopleRows ==
  {[c \in {NAME, STATES} |-> IF c = NAME THEN Some(k) ELSE Some(l)] :
     k \in PeopleNames, l \in StatesLists}

\* ps = pd.read_excel('./data/PeopleStates.xlsx')
ReadPeople ==
  /\ pc = "start"
  /\ SameExample("people_done")
  /\ \E n \in 0..MaxPeople :
       \E r \in [1..n -> PeopleRows] :
          /\ csv' = CsvFile(<<NAME, STATES>>, r)
          /\ ps' = CsvFile(<<NAME, STATES>>, r)
          /\ Replay(PEOPLE_SHEET1, CsvFile(<<NAME, STATES>>, r))
          /\ inputs' = (PEOPLE_SHEET1 :> CsvFile(<<NAME, STATES>>, r)) @@ inputs
  /\ pc' = "people_split"
  /\ UNCHANGED <<first_run, sp, ppop, merged_json, raised, df, billboard, songs, ranks, tmp_df, allFiles, df_list, df2, unmelted,
                 psplit, pexp, ptidy>>

\* psplit = ps.states.str.split(',', expand=True)
PeopleSplit ==
  /\ pc = "people_split"
  /\ psplit' = StrSplitExpand(ps, STATES, ",")
  /\ pc' = "people_concat"
  /\ UNCHANGED <<inputs, first_run, sp, ppop, merged_json, raised, csv, df, billboard, songs, ranks, tmp_df, allFiles, df_list, df2,
                 unmelted, ps, pexp, ptidy>>

\* pexp = pd.concat([ps.name, psplit], axis=1)
PeopleConcat ==
  /\ pc = "people_concat"
  /\ pexp' = ConcatColumns(SelectColumns(ps, <<NAME>>), psplit)
  /\ pc' = "people_melt"
  /\ UNCHANGED <<inputs, first_run, sp, ppop, merged_json, raised, csv, df, billboard, songs, ranks, tmp_df, allFiles, df_list, df2,
                 unmelted, ps, psplit, ptidy>>

\* ptidy = pd.melt(pexp, id_vars=['name'], value_name='state')
PeopleMelt ==
  /\ pc = "people_melt"
  /\ ptidy' = Melt(pexp, <<NAME>>, VARIABLE_COL, STATE_COL)
  /\ pc' = "people_select"
  /\ UNCHANGED <<inputs, first_run, sp, ppop, merged_json, raised, csv, df, billboard, songs, ranks, tmp_df, allFiles, df_list, df2,
                 unmelted, ps, psplit, pexp>>

\* ptidy = ptidy[['name','state']]
PeopleSelect ==
  /\ pc = "people_select"
  /\ ptidy' = SelectColumns(ptidy, <<NAME, STATE_COL>>)
  /\ pc' = "people_dropna"
  /\ UNCHANGED <<inputs, first_run, sp, ppop, merged_json, raised, csv, df, billboard, songs, ranks, tmp_df, allFiles, df_list, df2,
                 unmelted, ps, psplit, pexp>>

\* ptidy.dropna(inplace=True)
PeopleDropna ==
  /\ pc = "people_dropna"
  /\ ptidy' = Dropna(ptidy)
  /\ pc' = "people_sort"
  /\ UNCHANGED <<inputs, first_run, sp, ppop, merged_json, raised, csv, df, billboard, songs, ranks, tmp_df, allFiles, df_list, df2,
                 unmelted, ps, psplit, pexp>>

\* ptidy.sort_values(by='name', inplace=True): the rows by name, the missing
\* names last.  The default quicksort of the library sorts a column of up to
\* sixteen cells by insertion, which leaves equal names in their order.
PeopleSort ==
  /\ pc = "people_sort"
  /\ ptidy' = SortValues(ptidy, [i \in 1..NRows(ptidy) |-> StrKey(Val(ptidy.rows[i][NAME]))])
  /\ pc' = "people_read_sp"
  /\ UNCHANGED <<inputs, first_run, sp, ppop, merged_json, raised, csv, df, billboard, songs, ranks, tmp_df, allFiles, df_list, df2,
                 unmelted, ps, psplit, pexp>>

StateNames == {<<"N", "C">>, <<"V", "A">>}

PopulationCells == {NaN, Some(5), Some(9)}

\* The rows of the second sheet: a state and its population; a state may
\* stand on several rows.
SpRows ==
  {[c \in {STATE_COL, POPULATION_2010} |-> IF c = STATE_COL THEN Some(k) ELSE w] :
     k \in StateNames, w \in PopulationCells}

\* sp = pd.read_excel('./data/PeopleStates.xlsx', sheetname='Sheet2')
ReadSp ==
  /\ pc = "people_read_sp"
  /\ \E n \in 0..MaxStates :
       \E r \in [1..n -> SpRows] :
          /\ sp' = CsvFile(<<STATE_COL, POPULATION_2010>>, r)
          /\ Replay(PEOPLE_SHEET2, CsvFile(<<STATE_COL, POPULATION_2010>>, r))
          /\ inputs' = (PEOPLE_SHEET2 :> CsvFile(<<STATE_COL, POPULATION_2010>>, r)) @@ inputs
  /\ pc' = "people_merge"
  /\ UNCHANGED <<first_run, ppop, merged_json, raised, csv, df, billboard, songs, ranks, tmp_df, allFiles,
                 df_list, df2, unmelted, ps, psplit, pexp, ptidy>>

\* ppop = pd.merge(ptidy, sp, how='left', left_on='state', right_on='state')
PeopleMerge ==
  /\ pc = "people_merge"
  /\ ppop' = MergeLeft(ptidy, sp, <<STATE_COL>>)
  /\ pc' = "ppop_sort"
  /\ UNCHANGED <<inputs, first_run, sp, merged_json, raised, csv, df, billboard, songs, ranks, tmp_df, allFiles,
                 df_list, df2, unmelted, ps, psplit, pexp, ptidy>>

\* The key of a row for a sort by descending population, the missing last.
PopulationKey(r) ==
  IF IsNa(r[POPULATION_2010]) THEN <<1>> ELSE <<0, 0 - Val(r[POPULATION_2010])>>

\* ppop.sort_values('population_2010', ascending=False, inplace=True)
PpopSort ==
  /\ pc = "ppop_sort"
  /\ ppop' = SortValues(ppop, [i \in 1..NRows(ppop) |-> PopulationKey(ppop.rows[i])])
  /\ pc' = "people_to_json"
  /\ UNCHANGED <<inputs, first_run, sp, merged_json, raised, csv, df, billboard, songs, ranks, tmp_df, allFiles,
                 df_list, df2, unmelted, ps, psplit, pexp, ptidy>>

\* The JSON value of a cell: null for a missing value, a number for a cell of
\* a numeric column, a string otherwise.
JsonNull == <<"null">>

JsonValue(cell, isNumber) ==
  IF IsNa(cell) THEN JsonNull
  ELSE IF isNumber THEN <<"number", Val(cell)>>
  ELSE <<"string", Val(cell)>>

\* A to_json that leaves the missing values out of the objects.
ToJsonRecordsSkipNull(frame, numeric) ==
  [q \in 1..NRows(frame) |->
     LET present == SelectSeq(frame.columns, LAMBDA c : ~IsNa(frame.rows[q][c]))
     IN  [j \in 1..Len(present) |->
            <<present[j], JsonValue(frame.rows[q][present[j]], present[j] \in numeric)>>]]

\* frame.to_json(path, orient='records'): a list with one object per row, in
\* the order of the rows; an object is the list of the pairs (column name,
\* value) of the row, in the order of the columns.
ToJsonRecords(frame, numeric) ==
  [q \in 1..NRows(frame) |->
     [j \in 1..Len(frame.columns) |->
        <<frame.columns[j], JsonValue(frame.rows[q][frame.columns[j]], frame.columns[j] \in numeric)>>]]

\* ppop.to_json('./data/PeopleStates_Merged.json', orient='records')
ToJson ==
  /\ pc = "people_to_json"
  /\ merged_json' = ToJsonRecords(ppop, {POPULATION_2010})
  /\ pc' = "people_done"
  /\ UNCHANGED <<inputs, first_run, sp, ppop, raised, csv, df, billboard, songs, ranks, tmp_df, allFiles,
                 df_list, df2, unmelted, ps, psplit, pexp, ptidy>>

(***************************************************************************)
(* A second run of the cells of an example, on the same files.             *)
(***************************************************************************)
DonePcs == {"billboard_done", "tb_done", "weather_done", "toy_done", "baby_done", "people_done"}

\* The tables an example leaves behind.
Tables == <<df, billboard, songs, ranks, df2, unmelted, ptidy, ppop, merged_json>>

\* Restart the kernel and run the cells again: the variables are those of a
\* new kernel, the files and the tables of the first run are remembered.
RunAgain ==
  /\ pc \in DonePcs
  /\ first_run.example = "none"
  /\ first_run' = [example |-> pc, inputs |-> inputs, tables |-> Tables]
  /\ pc' = "start"
  /\ raised' = "none"
  /\ df' = EmptyFrame
  /\ billboard' = EmptyFrame
  /\ songs' = EmptyFrame
  /\ ranks' = EmptyFrame
  /\ tmp_df' = EmptyFrame
  /\ allFiles' = <<>>
  /\ df_list' = <<>>
  /\ df2' = EmptyFrame
  /\ unmelted' = EmptyFrame
  /\ csv' = EmptyFrame
  /\ ps' = EmptyFrame
  /\ psplit' = EmptyFrame
  /\ pexp' = EmptyFrame
  /\ ptidy' = EmptyFrame
  /\ sp' = EmptyFrame
  /\ ppop' = EmptyFrame
  /\ merged_json' = <<>>
  /\ inputs' = <<>>

(***************************************************************************)
(* The claims.                                                             *)
(***************************************************************************)
\* The number of rows of frame that equal r.
Count(frame, r) == Cardinality({p \in 1..NRows(frame) : frame.rows[p] = r})

NoMissing(r) == \A c \in DOMAIN r : r[c] # NaN

\* The row a melt owes to the input row i and the value column v.
MeltedRow(in, i, v, id_vars, var_name, value_name) ==
  [c \in Range(id_vars) \cup {var_name, value_name} |->
     IF c = var_name THEN Some(v)
     ELSE IF c = value_name THEN in.rows[i][v]
     ELSE in.rows[i][c]]

\* out holds one row per pair (input row, value column) and nothing else.
IsMeltOf(out, in, id_vars, var_name, value_name) ==
  LET pairs == (1..NRows(in)) \X (Range(in.columns) \ Range(id_vars))
      Owed(pr) == MeltedRow(in, pr[1], pr[2], id_vars, var_name, value_name)
  IN  /\ NRows(out) = NRows(in) * Cardinality(Range(in.columns) \ Range(id_vars))
      /\ \A pr \in pairs :
            Count(out, Owed(pr)) = Cardinality({q \in pairs : Owed(q) = Owed(pr)})
      /\ \A p \in 1..NRows(out) : \E pr \in pairs : out.rows[p] = Owed(pr)

\* C1: every melt (Billboard, tuberculosis, weather, toy table, people/states)
\* produces exactly one output row for every pair (input row, value column),
\* with the row's identifier values, the column's name and the cell, missing
\* or not; the output has rows x value columns rows and no other row.
C1_MeltOneRowPerPair ==
  [][/\ pc = "billboard_melt" => IsMeltOf(df', df, billboard_id_vars, WEEK, RANK)
     /\ pc = "tb_melt" => IsMeltOf(df', df, tb_id_vars, SEX_AND_AGE, CASES)
     /\ pc = "weather_melt" => IsMeltOf(df', df, weather_id_vars, DAY_RAW, VALUE)
     /\ pc = "toy_melt" => IsMeltOf(df2', df, toy_id_vars, VARIABLE_COL, VALUE)
     /\ pc = "people_melt" => IsMeltOf(ptidy', pexp, <<NAME>>, VARIABLE_COL, STATE_COL)]_vars

\* A melt of two songs over two weeks that kept a row for a missing rank.
C1_Witness ==
  /\ pc = "billboard_dropna"
  /\ NRows(csv) = 2
  /\ NRows(df) = 4
  /\ \E p \in 1..4 : df.rows[p][RANK] = NaN
  /\ \E p \in 1..4 : df.rows[p][RANK] # NaN

SongsMade == pc \in {"ranks", "billboard_done"}

\* C2: song_id is a primary key of songs: every billboard row agrees with
\* exactly one songs row on the song columns, every songs row comes from
\* billboard, no two songs rows share a song_id and the song_ids are 0..n-1.
C2_SongIdPrimaryKey ==
  SongsMade =>
    /\ \A i \in 1..NRows(billboard) :
          Cardinality({k \in 1..NRows(songs) :
             \A c \in Range(songs_cols) : songs.rows[k][c] = billboard.rows[i][c]}) = 1
    /\ \A k \in 1..NRows(songs) :
          \E i \in 1..NRows(billboard) :
             \A c \in Range(songs_cols) : songs.rows[k][c] = billboard.rows[i][c]
    /\ \A k, l \in 1..NRows(songs) :
          songs.rows[k][SONG_ID] = songs.rows[l][SONG_ID] => k = l
    /\ {songs.rows[k][SONG_ID] : k \in 1..NRows(songs)} = {Some(j) : j \in 0..(NRows(songs) - 1)}

\* Two songs, one of them on the chart for two weeks.
C2_Witness ==
  /\ SongsMade
  /\ NRows(songs) = 2
  /\ NRows(billboard) = 3

\* The ranks row owed to the billboard row i.
RanksRow(i) ==
  [c \in {SONG_ID, DATE, RANK} |->
     IF c = SONG_ID
     THEN songs.rows[CHOOSE k \in 1..NRows(songs) :
             \A a \in Range(songs_cols) : songs.rows[k][a] = billboard.rows[i][a]][SONG_ID]
     ELSE billboard.rows[i][c]]

\* C3: ranks has one row per billboard row, with that row's date and rank and
\* the song_id of the songs row that agrees with it on the song columns; its
\* columns are song_id, date and rank; the song_ids of ranks are those of songs.
C3_RanksForeignKey ==
  pc = "billboard_done" =>
    /\ NRows(ranks) = NRows(billboard)
    /\ ranks.columns = <<SONG_ID, DATE, RANK>>
    /\ \A p \in 1..NRows(ranks) : DOMAIN ranks.rows[p] = {SONG_ID, DATE, RANK}
    /\ \A i \in 1..NRows(billboard) :
          Count(ranks, RanksRow(i))
             = Cardinality({k \in 1..NRows(billboard) : RanksRow(k) = RanksRow(i)})
    /\ {ranks.rows[p][SONG_ID] : p \in 1..NRows(ranks)}
          = {songs.rows[k][SONG_ID] : k \in 1..NRows(songs)}

\* Two songs with three rankings between them.
C3_Witness ==
  /\ pc = "billboard_done"
  /\ NRows(ranks) = 3
  /\ Cardinality({ranks.rows[p][SONG_ID] : p \in 1..NRows(ranks)}) = 2

\* out is in without its rows that have a missing field, labels and order kept.
IsDropnaOf(out, in) ==
  LET At(frame, l) == CHOOSE i \in 1..NRows(frame) : frame.index[i] = l
  IN  /\ out.columns = in.columns
      /\ \A q \in 1..NRows(out) : NoMissing(out.rows[q])
      /\ \A q \in 1..NRows(out) :
            /\ out.index[q] \in Range(in.index)
            /\ out.rows[q] = in.rows[At(in, out.index[q])]
      /\ \A i \in 1..NRows(in) :
            NoMissing(in.rows[i]) =>
               Cardinality({q \in 1..NRows(out) : out.index[q] = in.index[i]}) = 1
      /\ \A q, r \in 1..NRows(out) :
            q < r => At(in, out.index[q]) < At(in, out.index[r])

\* C6: every drop-missing step (Billboard, tuberculosis, weather,
\* people/states) keeps a row if and only if none of its fields is missing,
\* with its values unchanged and in the same relative order.
C6_DropnaKeepsCompleteRows ==
  [][/\ pc = "billboard_dropna" => IsDropnaOf(df', df)
     /\ pc = "tb_dropna" => IsDropnaOf(df', df)
     /\ pc = "weather_dropna" => IsDropnaOf(df', df)
     /\ pc = "people_dropna" => IsDropnaOf(ptidy', ptidy)]_vars

\* A Billboard dropna that removed some of the four melted rows and kept others.
C6_Witness ==
  /\ pc = "billboard_format"
  /\ NRows(csv) = 2
  /\ NRows(df) = 2
  /\ df.index = <<1, 2>>

RECURSIVE SumOf(_, _)
\* The sum of f over the finite set S.
SumOf(f, S) ==
  IF S = {} THEN 0 ELSE LET x == CHOOSE y \in S : TRUE IN f[x] + SumOf(f, S \ {x})

\* out is the pivot of in: a row per (id, date), a column per element, the
\* cell the mean of the values of the group (the values are whole numbers).
IsPivotOf(out, in) ==
  LET KeyOf(r) == <<r[ID], r[DATE]>>
      keys == {KeyOf(in.rows[i]) : i \in 1..NRows(in)}
      elems == {Val(in.rows[i][ELEMENT]) : i \in 1..NRows(in)}
      Group(k, e) == {i \in 1..NRows(in) :
                        KeyOf(in.rows[i]) = k /\ Val(in.rows[i][ELEMENT]) = e}
      num == [i \in 1..NRows(in) |-> Val(in.rows[i][VALUE])[1]]
  IN  /\ Range(out.columns) \ {ID, DATE} = elems
      /\ NRows(in) > 0 => Len(out.columns) = 2 + Cardinality(elems)
      /\ NRows(in) > 0 => {ID, DATE} \subseteq Range(out.columns)
      /\ NRows(out) = Cardinality(keys)
      /\ \A k \in keys :
            Cardinality({q \in 1..NRows(out) : KeyOf(out.rows[q]) = k}) = 1
      /\ \A q \in 1..NRows(out) :
            \A e \in elems :
               LET g == Group(KeyOf(out.rows[q]), e)
                   cell == out.rows[q][e]
               IN  /\ g = {} => cell = NaN
                   /\ g # {} =>
                        /\ cell # NaN
                        /\ Val(cell)[2] > 0
                        /\ Val(cell)[1] * Cardinality(g) = SumOf(num, g) * Val(cell)[2]
                   /\ Cardinality(g) = 1 => cell = in.rows[CHOOSE i \in g : TRUE][VALUE]

\* C4: the weather pivot gives one row per distinct (id, date) of its input
\* and one column per distinct element besides id and date; a cell is the
\* mean of the input values with that id, date and element, the value itself
\* when there is one such row and missing when there is none.
C4_PivotRowsColumnsCells ==
  [][pc = "weather_pivot" => IsPivotOf(df', df)]_vars

\* A pivot with two dates, one cell the mean of two measurements (10 and 25).
C4_Witness ==
  /\ pc = "weather_done"
  /\ NRows(df) = 2
  /\ \E q \in 1..2 : \E e \in {TMIN, TMAX} :
        e \in Range(df.columns) /\ df.rows[q][e] = Some(<<35, 2>>)

UniqueIds(frame) ==
  \A i, k \in 1..NRows(frame) : frame.rows[i][ROW] = frame.rows[k][ROW] => i = k

AllPresent(frame) == \A i \in 1..NRows(frame) : NoMissing(frame.rows[i])

SameTable(a, b) ==
  /\ NRows(a) = NRows(b)
  /\ Len(a.columns) = Len(b.columns)
  /\ Range(a.columns) = Range(b.columns)
  /\ {a.rows[i] : i \in 1..NRows(a)} = {b.rows[i] : i \in 1..NRows(b)}

C7_EveryLabelSplits ==
  pc = "tb_concat" =>
    \A i \in 1..NRows(df) :
       LET l == Val(df.rows[i][SEX_AND_AGE])
           n == Len(l)
       IN  /\ n >= 4
           /\ ~IsDigit(l[1])
           /\ \A k \in 2..n : IsDigit(l[k])
           /\ tmp_df.rows[i][SEX] = Some(<<l[1]>>)
           /\ tmp_df.rows[i][AGE_LOWER] = Some(SubSeq(l, 2, n - 2))
           /\ tmp_df.rows[i][AGE_UPPER] = Some(SubSeq(l, n - 1, n))
           /\ tmp_df.rows[i][AGE] = Some(SubSeq(l, 2, n - 2) \o <<"-">> \o SubSeq(l, n - 1, n))

\* A label holds a non-digit that three digits follow.
TbMatches(l) ==
  \E i \in 1..Len(l) :
     /\ ~IsDigit(l[i])
     /\ i + 3 <= Len(l)
     /\ \A k \in (i + 1)..(i + 3) : IsDigit(l[k])

\* A label holds a "d" that a digit follows.
DayMatches(l) == \E i \in 1..(Len(l) - 1) : l[i] = "d" /\ IsDigit(l[i + 1])

HasDigit(l) == \E i \in 1..Len(l) : IsDigit(l[i])

\* C8 as stated: in the Billboard, tuberculosis and weather splitting steps a
\* label that does not match yields missing derived fields and no error is
\* raised.
C8_UnmatchedLabelsAreSilent ==
  /\ pc \notin {"billboard_format_failed", "weather_int_failed"}
  /\ pc = "tb_concat" =>
        \A i \in 1..NRows(df) :
           ~TbMatches(Val(df.rows[i][SEX_AND_AGE])) =>
              \A c \in {SEX, AGE_LOWER, AGE_UPPER, AGE} : tmp_df.rows[i][c] = NaN
  /\ pc = "weather_int" =>
        \A i \in 1..NRows(df) :
           ~DayMatches(Val(df.rows[i][DAY_RAW])) => df.rows[i][DAY] = NaN

\* C8 amended: the tuberculosis extraction gives a row whose label does not
\* match missing values in sex, age_lower, age_upper and age, the weather
\* extraction a missing day, no error is raised and the rows whose labels
\* match get their fields; but the astype(int) that follows in the weather
\* example, and the one in the Billboard statement itself, raises ValueError
\* exactly when a row's label did not match.
C8_UnmatchedLabels ==
  [][/\ pc = "tb_extract" =>
          /\ pc' = "tb_concat"
          /\ raised' = "none"
          /\ NRows(tmp_df') = NRows(df)
          /\ \A i \in 1..NRows(df) :
                \A c \in {SEX, AGE_LOWER, AGE_UPPER, AGE} :
                   (tmp_df'.rows[i][c] = NaN) <=> ~TbMatches(Val(df.rows[i][SEX_AND_AGE]))
     /\ pc = "weather_day" =>
          /\ pc' = "weather_int"
          /\ raised' = "none"
          /\ NRows(df') = NRows(df)
          /\ \A i \in 1..NRows(df) :
                /\ (df'.rows[i][DAY] = NaN) <=> ~DayMatches(Val(df.rows[i][DAY_RAW]))
                /\ \A c \in Range(df.columns) : df'.rows[i][c] = df.rows[i][c]
     /\ pc = "weather_int" =>
          IF \E i \in 1..NRows(df) : ~DayMatches(Val(df.rows[i][DAY_RAW]))
          THEN pc' = "weather_int_failed" /\ raised' = "ValueError"
          ELSE pc' = "weather_date" /\ raised' = "none"
     /\ pc = "billboard_format" =>
          IF \E i \in 1..NRows(df) : ~HasDigit(Val(df.rows[i][WEEK]))
          THEN pc' = "billboard_format_failed" /\ raised' = "ValueError" /\ df' = df
          ELSE pc' = "billboard_sort" /\ raised' = "none"]_vars

\* A weather table whose astype(int) raised on the label "notes", with another
\* row whose day was extracted.
C8_Witness ==
  /\ pc = "weather_int_failed"
  /\ raised = "ValueError"
  /\ \E i \in 1..NRows(df) : df.rows[i][DAY] = NaN
  /\ \E i \in 1..NRows(df) : df.rows[i][DAY] # NaN

\* The observations of the tuberculosis file: (row, sex/age column).
TbObservations == (1..NRows(csv)) \X (Range(csv.columns) \ Range(tb_id_vars))

\* C9 as stated: the tidy tuberculosis table has a row for every observation
\* of the file with a count, 0 included, with that count, and none for an
\* observation whose count is missing.
C9_ZeroKeptMissingDropped ==
  pc = "tb_done" =>
    /\ NRows(df) = Cardinality({o \in TbObservations : csv.rows[o[1]][o[2]] # NaN})
    /\ \A k \in CountryNames :
          \A x \in {"m", "f"} :
             \A n \in {v \in CasesCells : v # NaN} :
                Cardinality({q \in 1..NRows(df) :
                   /\ df.rows[q][COUNTRY] = Some(k)
                   /\ df.rows[q][SEX] = Some(<<x>>)
                   /\ df.rows[q][CASES] = n})
                = Cardinality({o \in TbObservations :
                   /\ csv.rows[o[1]][COUNTRY] = Some(k)
                   /\ o[2][1] = x
                   /\ csv.rows[o[1]][o[2]] = n})

\* The two capitals before "_baby_names_" and the four digits after it, at
\* the last place where a file name holds "_baby_names_".
NameParts(string) ==
  LET k == Len(BABY_NAMES)
      at == {i \in 1..(Len(string) - k + 1) : SubSeq(string, i, i + k - 1) = BABY_NAMES}
      i == CHOOSE x \in at : \A y \in at : y <= x
  IN  [state |-> SubSeq(string, i - 2, i - 1), year |-> SubSeq(string, i + k, i + k + 3)]

\* C10 as stated: for every file the glob pattern selects,
\* extract_variables_from_filename returns the state and the year of its
\* name; the loop never fails and ends with a combined table.
C10_LoadingIsTotal ==
  /\ pc \notin {"baby_loop_failed", "baby_concat_failed"}
  /\ pc \in {"baby_loop", "baby_done"} =>
        \A i \in 1..Len(allFiles) :
           /\ extract_variables_from_filename(allFiles[i]) # None
           /\ Val(extract_variables_from_filename(allFiles[i])) = NameParts(allFiles[i])

\* The cell of the column number j (1, 2, ...) that the split owes to the
\* states string s.
SplitCell(s, j) == IF j <= Len(Split(s, ",")) THEN Some(Split(s, ",")[j]) ELSE NaN

\* C13: the column-wise concatenation keeps the number of rows and puts next
\* to every row the fields computed from that row's own source cell: in the
\* tuberculosis example sex and age come from the row's sex_and_age label, in
\* the people/states example the split states come from the row's states
\* string; the columns of the left table are unchanged.
C13_ConcatAlignsRows ==
  [][/\ pc = "tb_concat" =>
          /\ NRows(df') = NRows(df)
          /\ \A i \in 1..NRows(df) :
                LET g == ExtractSexAge(Val(df.rows[i][SEX_AND_AGE]))
                IN  /\ df'.rows[i][SEX] = g[1]
                    /\ df'.rows[i][AGE] = StrCat(StrCat(g[2], Some(<<"-">>)), g[3])
                    /\ \A c \in {COUNTRY, YEAR, CASES} : df'.rows[i][c] = df.rows[i][c]
     /\ pc = "people_concat" =>
          /\ NRows(pexp') = NRows(ps)
          /\ \A i \in 1..NRows(ps) :
                /\ pexp'.rows[i][NAME] = ps.rows[i][NAME]
                /\ \A j \in 1..Len(psplit.columns) :
                      pexp'.rows[i][ColumnNumber(j - 1)] =
                         SplitCell(Val(ps.rows[i][STATES]), j)]_vars

\* Two tuberculosis rows have been put next to their own, different, sexes.
C13_Witness ==
  /\ pc = "tb_dropna"
  /\ \E i, j \in 1..NRows(df) :
        /\ df.rows[i][SEX] = Some(<<"m">>)
        /\ df.rows[j][SEX] = Some(<<"f">>)

\* C15: the Billboard clean-up step removes exactly the melted rows whose rank
\* is missing: a melted row is kept if and only if it has a rank.
C15_DroppedRowsHaveNoRank ==
  [][pc = "billboard_dropna" =>
        \A i \in 1..NRows(df) :
           (df.index[i] \in Range(df'.index)) <=> ~IsNa(df.rows[i][RANK])]_vars

\* The first run of digits of a string that has a digit.
FirstDigitRun(s) ==
  LET i == CHOOSE x \in 1..Len(s) : IsDigit(s[x]) /\ \A y \in 1..(x - 1) : ~IsDigit(s[y])
      j == CHOOSE x \in i..Len(s) :
             /\ \A y \in i..x : IsDigit(s[y])
             /\ \A y \in (x + 1)..Len(s) : \E z \in i..y : ~IsDigit(s[z])
  IN  SubSeq(s, i, j)

SameSong(r, t) == \A c \in Range(billboard_id_vars) : r[c] = t[c]

\* C16: in the Billboard example the week of a row is the integer written by
\* the first run of digits of the former column header, and its date is
\* date.entered plus (week - 1) times seven days: a row of week 1 is dated
\* date.entered, and the dates of the weeks w and w + 1 of a song are seven
\* days apart.
C16_WeekAndDate ==
  [][(pc = "billboard_format" /\ pc' = "billboard_sort") =>
        /\ NRows(df') = NRows(df)
        /\ \A i \in 1..NRows(df) :
              /\ df'.rows[i][WEEK] = Some(ToInt(FirstDigitRun(Val(df.rows[i][WEEK]))))
              /\ Val(df'.rows[i][DATE]) =
                    ToDatetime(Val(df.rows[i][DATE_ENTERED])) + 7 * (Val(df'.rows[i][WEEK]) - 1)
              /\ Val(df'.rows[i][WEEK]) = 1 =>
                    Val(df'.rows[i][DATE]) = ToDatetime(Val(df.rows[i][DATE_ENTERED]))
        /\ \A i, j \in 1..NRows(df) :
              (/\ SameSong(df.rows[i], df.rows[j])
               /\ Val(df'.rows[j][WEEK]) = Val(df'.rows[i][WEEK]) + 1) =>
                 Val(df'.rows[j][DATE]) - Val(df'.rows[i][DATE]) = 7]_vars

\* A song that entered on 1999-12-25 has its week 1 dated that day and its
\* week 10 dated 2000-02-26.
C16_Witness ==
  /\ pc = "billboard_sort"
  /\ \E i, j \in 1..NRows(df) :
        /\ SameSong(df.rows[i], df.rows[j])
        /\ df.rows[i][WEEK] = Some(1)
        /\ df.rows[j][WEEK] = Some(10)
        /\ df.rows[i][DATE_ENTERED] = Some(<<"1", "9", "9", "9", "-", "1", "2", "-", "2", "5">>)
        /\ Val(df.rows[i][DATE]) = ToDatetime(Val(df.rows[i][DATE_ENTERED]))
        /\ Val(df.rows[j][DATE]) = ToDatetime(<<"2", "0", "0", "0", "-", "0", "2", "-", "2", "6">>)

\* The items of a comma-separated list, as the places <<first, last>> of the
\* list they stand at.
ItemsOf(s) ==
  {pl \in (1..(Len(s) + 1)) \X (0..Len(s)) :
     /\ pl[1] <= pl[2] + 1
     /\ (pl[1] = 1 \/ s[pl[1] - 1] = ",")
     /\ (pl[2] = Len(s) \/ s[pl[2] + 1] = ",")
     /\ \A k \in pl[1]..pl[2] : s[k] # ","}

\* The listed states of the people of sheet: <<person, item>>.
Listed(sheet) ==
  UNION {{<<i, pl>> : pl \in ItemsOf(Val(sheet.rows[i][STATES]))} : i \in 1..NRows(sheet)}

\* The row (name, state) of a listed state.
TidyRow(sheet, l) ==
  [c \in {NAME, STATE_COL} |->
     IF c = NAME THEN sheet.rows[l[1]][NAME]
     ELSE Some(SubSeq(Val(sheet.rows[l[1]][STATES]), l[2][1], l[2][2]))]

\* tidy holds one row per listed state of sheet and no other row.
IsTidyOf(tidy, sheet) ==
  /\ tidy.columns = <<NAME, STATE_COL>>
  /\ NRows(tidy) = Cardinality(Listed(sheet))
  /\ \A l \in Listed(sheet) :
        Count(tidy, TidyRow(sheet, l)) =
           Cardinality({k \in Listed(sheet) : TidyRow(sheet, k) = TidyRow(sheet, l)})
  /\ \A p \in 1..NRows(tidy) : \E l \in Listed(sheet) : tidy.rows[p] = TidyRow(sheet, l)

NameState(r) == <<r[NAME], r[STATE_COL]>>

\* The rows of sheet that hold the state of r.
Matches(sheet, r) == {j \in 1..NRows(sheet) : sheet.rows[j][STATE_COL] = r[STATE_COL]}

\* C11: the merge of ptidy with the second sheet is a left join on state:
\* every row of ptidy is in ppop with its name and state, once per row of the
\* sheet with that state and once, with a missing population, when the sheet
\* has no such row; no row of ppop has a (name, state) that ptidy has not;
\* when no state stands twice in the sheet ppop has as many rows as ptidy.
C11_LeftJoinOnState ==
  [][pc = "people_merge" =>
        /\ ppop'.columns = <<NAME, STATE_COL, POPULATION_2010>>
        /\ \A p \in 1..NRows(ptidy) :
              LET same == {q \in 1..NRows(ppop') : NameState(ppop'.rows[q]) = NameState(ptidy.rows[p])}
                  twins == {t \in 1..NRows(ptidy) : NameState(ptidy.rows[t]) = NameState(ptidy.rows[p])}
                  m == Matches(sp, ptidy.rows[p])
              IN  /\ same # {}
                  /\ Cardinality(same) =
                        Cardinality(twins) * (IF m = {} THEN 1 ELSE Cardinality(m))
                  /\ m = {} => \A q \in same : IsNa(ppop'.rows[q][POPULATION_2010])
                  /\ \A j \in m : \E q \in same :
                        ppop'.rows[q][POPULATION_2010] = sp.rows[j][POPULATION_2010]
        /\ \A q \in 1..NRows(ppop') :
              \E p \in 1..NRows(ptidy) : NameState(ptidy.rows[p]) = NameState(ppop'.rows[q])
        /\ (\A j, k \in 1..NRows(sp) :
               sp.rows[j][STATE_COL] = sp.rows[k][STATE_COL] => j = k) =>
              NRows(ppop') = NRows(ptidy)]_vars

\* A person of a state the sheet has, with its population, and a person of a
\* state the sheet has not, with a missing population.
C11_Witness ==
  /\ pc = "ppop_sort"
  /\ NRows(ptidy) = 2
  /\ NRows(sp) = 1
  /\ NRows(ppop) = 2
  /\ \E q \in 1..2 :
        /\ ppop.rows[q][STATE_COL] = Some(<<"V", "A">>)
        /\ Matches(sp, ppop.rows[q]) = {}
        /\ IsNa(ppop.rows[q][POPULATION_2010])
  /\ \E q \in 1..2 : ppop.rows[q][POPULATION_2010] = Some(5)

\* The values an object holds under the name c.
Under(object, c) == {object[j][2] : j \in {k \in 1..Len(object) : object[k][1] = c}}

\* The rows of frame are in the order of the descending population, the rows
\* with a missing population after the others.
PopulationDescending(frame) ==
  \A q, r \in 1..NRows(frame) :
     q < r =>
        \/ IsNa(frame.rows[r][POPULATION_2010])
        \/ /\ ~IsNa(frame.rows[q][POPULATION_2010])
           /\ Val(frame.rows[q][POPULATION_2010]) >= Val(frame.rows[r][POPULATION_2010])

\* C12: the JSON file written at the end of the people/states example is a
\* list of one object per row of ppop, in the order ppop has when it is
\* written, which is the descending population with the missing ones last;
\* the object of a row holds every column of the row under the column's name.
C12_JsonOneObjectPerRow ==
  [][pc = "people_to_json" =>
        /\ PopulationDescending(ppop)
        /\ Len(merged_json') = NRows(ppop)
        /\ \A q \in 1..NRows(ppop) :
              /\ Len(merged_json'[q]) = Len(ppop.columns)
              /\ \A c \in Range(ppop.columns) :
                    Under(merged_json'[q], c) =
                       {IF IsNa(ppop.rows[q][c]) THEN JsonNull
                        ELSE <<(IF c = POPULATION_2010 THEN "number" ELSE "string"),
                               Val(ppop.rows[q][c])>>}]_vars

\* A file of three objects with the populations 9, 5 and null.
C12_Witness ==
  /\ pc = "people_done"
  /\ Len(merged_json) = 3
  /\ Under(merged_json[1], POPULATION_2010) = {<<"number", 9>>}
  /\ Under(merged_json[2], POPULATION_2010) = {<<"number", 5>>}
  /\ Under(merged_json[3], POPULATION_2010) = {JsonNull}
  /\ Under(merged_json[3], STATE_COL) = {<<"string", <<"V", "A">>>>}

\* The number of rows of the frames before the frame number k.
RECURSIVE RowsBefore(_, _)
RowsBefore(frames, k) ==
  IF k <= 1 THEN 0 ELSE RowsBefore(frames, k - 1) + NRows(frames[k - 1])

NoCapital(s) == \A j \in 1..Len(s) : ~IsUpper(s[j])

\* C18: the combined baby-names table appends the files: every file is loaded
\* with its rows, lower-case column names and the year and the state of its
\* own name on every row; the combined table has the sum of the rows of the
\* files, the rows of a file together and in the order of the file, the files
\* in the order of allFiles.
C18_FilesAppended ==
  [][/\ (pc = "baby_loop" /\ Len(df_list') = Len(df_list) + 1) =>
          LET k == Len(df_list')
              f == df_list'[k]
          IN  /\ \A j \in 1..Len(df_list) : df_list'[j] = df_list[j]
              /\ \A c \in Range(f.columns) : NoCapital(c)
              /\ NRows(f) = NRows(csv')
              /\ \A i \in 1..NRows(f) :
                    /\ f.rows[i][NAME] = csv'.rows[i][NAME_HEADER]
                    /\ f.rows[i][YEAR] = Some(NameParts(allFiles[k]).year)
                    /\ f.rows[i][STATE_COL] = Some(NameParts(allFiles[k]).state)
     /\ (pc = "baby_loop" /\ pc' = "baby_done") =>
          /\ Len(df_list) = Len(allFiles)
          /\ NRows(df') = RowsBefore(df_list, Len(df_list) + 1)
          /\ \A c \in Range(df'.columns) : NoCapital(c)
          /\ \A k \in 1..Len(df_list) :
                \A i \in 1..NRows(df_list[k]) :
                   LET row == df'.rows[RowsBefore(df_list, k) + i]
                   IN  /\ row = df_list[k].rows[i]
                       /\ row[YEAR] = Some(NameParts(allFiles[k]).year)
                       /\ row[STATE_COL] = Some(NameParts(allFiles[k]).state)]_vars

\* A combined table of a file of two rows and a file of one row, of two
\* states and two years.
C18_Witness ==
  /\ pc = "baby_done"
  /\ Len(df_list) = 2
  /\ NRows(df_list[1]) = 2
  /\ NRows(df_list[2]) = 1
  /\ NRows(df) = 3
  /\ df.rows[1][STATE_COL] = df.rows[2][STATE_COL]
  /\ df.rows[3][STATE_COL] # df.rows[1][STATE_COL]
  /\ df.rows[3][YEAR] = Some(NameParts(allFiles[2]).year)
  /\ df.rows[3][YEAR] # df.rows[1][YEAR]

\* C14 as stated: a second run of the cells of an example on the same files
\* ends with the tables of the first run: the same rows in the same order
\* with the same keys, song_id and the order of the combined baby-names table
\* included, in whatever order the directory is listed.
C14_SecondRunSameTables ==
  (first_run.example # "none" /\ pc = first_run.example) => Tables = first_run.tables

Next ==
  \/ ReadBillboard
  \/ BillboardMelt
  \/ BillboardDropna
  \/ BillboardFormat
  \/ BillboardSort
  \/ SongsCell
  \/ RanksCell
  \/ ReadTb
  \/ TbMelt
  \/ TbExtract
  \/ TbConcat
  \/ TbDropna
  \/ TbSort
  \/ ReadWeather
  \/ WeatherMelt
  \/ WeatherId
  \/ WeatherDay
  \/ WeatherInt
  \/ WeatherDate
  \/ WeatherDropColumns
  \/ WeatherDropna
  \/ WeatherPivot
  \/ ToyFrame
  \/ ToyMelt
  \/ ToyPivot
  \/ GlobCell
  \/ BabyLoop
  \/ BabyConcat
  \/ ReadPeople
  \/ PeopleSplit
  \/ PeopleConcat
  \/ PeopleMelt
  \/ PeopleSelect
  \/ PeopleDropna
  \/ PeopleSort
  \/ ReadSp
  \/ PeopleMerge
  \/ PpopSort
  \/ ToJson

Spec == Init /\ [][Next]_vars

\* The notebook run once and, after an example is done, once more.
NextTwoRuns == Next \/ RunAgain

SpecTwoRuns == Init /\ [][NextTwoRuns]_vars

====
